---- MODULE Spec2Model ----
(***************************************************************************)
(* Service-report lifecycle, report e-mail dispatch and SMS reminder       *)
(* dispatch of the field-service back office.                              *)
(*                                                                         *)
(* The store (service_reports, service_report_photos, sms_notifications)   *)
(* is shared by every client.  Each store call is one atomic step; a       *)
(* handler that makes several store or provider calls is a sequence of     *)
(* steps, one per await, so that other clients interleave between them.    *)
(* A store or provider call may fail for reasons the code cannot see       *)
(* (network, policy); such a failure is an input chosen with \E.           *)
(***************************************************************************)
EXTENDS Integers, Sequences, FiniteSets, TLC

\* ------------------------------------------------------------------ bounds
MaxReports == 1
MaxFormPhotos == 1
MaxSmsRows == 3
MaxFiles == 2
MaxPhotos == 2
MaxDays == 4
MaxFetched == 3
MaxTime == 2

ReportIds == 1..MaxReports
NoId == 0
\* null, undefined
Null == "null"
Customers == {"c1", "c2"}

\* ------------------------------------------------------------------ state
VARIABLES
    service_reports,        \* table service_reports: id -> row
    service_report_photos,  \* table service_report_photos: set of rows
    nextPhotoId,            \* next id the store gives a photo row
    h,                      \* generate-and-send-report: one invocation per caller
    detail,                 \* ServiceReportDetail component state
    list,                   \* ServiceReportList component state
    form,                   \* ServiceReportForm (create) component state
    sms_notifications,      \* table sms_notifications: sequence of rows
    sms,                    \* useSMSService: one call per function
    reminder,               \* handleSendSMSReminder: the last click and its toast
    customers,              \* table customers: id -> "present" or "deleted"
    dialog,                 \* DeleteCustomerDialog component state
    upload,                 \* uploadPhotos: the batch in flight
    editPhotos,             \* ServiceReportEdit: the `photos` state (rows)
    createPhotos,           \* ServiceReportForm: the `photos` state (URLs)
    photoPreviews,          \* ServiceReportForm: the `photoPreviews` state
    removal,                \* ServiceReportEdit: the removePhoto call in flight
    summary,                \* DraftReportsSummary: clock, a draft's date, its label
    activity,               \* useRecentActivity hook state
    auth                    \* AuthProvider state, the auth client and its events

vars == <<service_reports, service_report_photos, nextPhotoId, h, detail, list, form,
          sms_notifications, sms, reminder, customers, dialog, upload, editPhotos, createPhotos,
          photoPreviews, removal, summary, activity, auth>>

lifecycleVars == <<service_reports, service_report_photos, nextPhotoId, h, detail, list, form>>
smsVars == <<sms_notifications, sms, reminder>>
customerVars == <<customers, dialog>>
uploadVars == <<upload, editPhotos, createPhotos, photoPreviews, removal>>
\* what the report views and the handler leave alone, what the SMS hook
\* leaves alone, and what the delete-customer dialog leaves alone
dashboardVars == <<summary, activity>>
authVars == <<auth>>
outsideLifecycle == <<smsVars, customerVars, uploadVars, dashboardVars, authVars>>
outsideSms == <<lifecycleVars, customerVars, uploadVars, dashboardVars, authVars>>
outsideCustomers == <<lifecycleVars, smsVars, uploadVars, dashboardVars, authVars>>
outsideDashboard == <<lifecycleVars, smsVars, customerVars, uploadVars, authVars>>
outsideAuth == <<lifecycleVars, smsVars, customerVars, uploadVars, dashboardVars>>

\* A row of service_reports.  `row` tells whether the id has never been
\* used, names a stored row, or named a row that was deleted (ids are
\* generated by the store and never reused).
AbsentRow == [row |-> "absent", status |-> "draft", customer_id |-> "c1"]
DeletedRow == [row |-> "deleted", status |-> "draft", customer_id |-> "c1"]

Present(r) == r \in ReportIds /\ service_reports[r].row = "present"

\* mutant: the store accepts a customer_id that names no customer
CustomerExistsUnchecked(c) == TRUE

\* service_reports_customer_id_fkey, sms_notifications_customer_id_fkey: the
\* store accepts a customer_id only if it names a row of customers
CustomerExists(c) == customers[c] = "present"
Created(r) == r \in ReportIds /\ service_reports[r].row # "absent"

\* ------------------------------------------------- generate-and-send-report
Callers == {"detail", "direct"}

MsgNone == <<>>
MsgReportIdRequired == <<"Report ID is required">>
MsgReportNotFound == <<"Report not found">>
\* message of the PostgREST error that .single() returns when the query
\* result is not exactly one row
MsgSingleNoRows == <<"JSON object requested, multiple (or no) rows returned">>
MsgStoreError == <<"store error">>
MsgEmailFailed == <<"Email sending failed: ", "provider error">>

HIdle == [pc |-> "idle", reportId |-> NoId, loaded |-> "none", cause |-> "none",
          emails |-> 0, updates |-> 0, writes |-> 0, updateError |-> FALSE,
          success |-> FALSE, httpStatus |-> 0, error |-> MsgNone]

\* catch block: every thrown error becomes a 500 response carrying its message
HandlerCatch(hc, cause, msg) ==
    [hc EXCEPT !.pc = "returned", !.cause = cause, !.success = FALSE,
               !.httpStatus = 500, !.error = msg]

\* .select(...).eq('id', reportId).single(): { data, error }.  A result that
\* is not exactly one row is an error of the query, with data null.
Single(reportId, storeError) ==
    IF storeError THEN [data |-> "null", error |-> MsgStoreError]
    ELSE IF ~Present(reportId) THEN [data |-> "null", error |-> MsgSingleNoRows]
    ELSE [data |-> service_reports[reportId].status, error |-> MsgNone]

\* the error thrown before the e-mail is sent, or MsgNone to go on:
\*   if (!reportId) throw new Error('Report ID is required')
\*   if (reportError) throw reportError
\*   if (!reportData) throw new Error('Report not found')
HandlerLoadError(reportId, res) ==
    IF reportId = NoId THEN MsgReportIdRequired
    ELSE IF res.error # MsgNone THEN res.error
    ELSE IF res.data = "null" THEN MsgReportNotFound
    ELSE MsgNone

\* why the request failed, as the caller set it up (not part of the response)
HandlerLoadCause(reportId, storeError) ==
    IF reportId = NoId THEN "missing_id"
    ELSE IF storeError THEN "store"
    ELSE IF ~Present(reportId) THEN "no_row"
    ELSE "none"

\* mutant: a failed send is tried again
EmailSendCallsRetry(providerError) == IF providerError THEN 2 ELSE 1

\* resend.emails.send is called once, whatever it answers
EmailSendCalls(providerError) == 1

\* mutant: the comparison never matches
HandlerNeverUpdates(loaded) == loaded = "Draft"

\* if (reportData.status === 'draft')
HandlerShouldUpdate(loaded) == loaded = "draft"

\* mutant: the update flips the status
StatusToggled(row) ==
    [row EXCEPT !.status = IF @ = "draft" THEN "completed" ELSE "draft"]

\* mutant: the update writes the row back as it was read
StatusKept(row) == row

\* mutant: finalizing moves the report to 'in-progress'
StatusInProgress(row) == [row EXCEPT !.status = "in-progress"]

\* .update({ status: 'completed' })
StatusCompleted(row) == [row EXCEPT !.status = "completed"]

\* mutant: the update error is thrown
HandlerThrowsUpdateError(hc, updateError) ==
    IF updateError
    THEN HandlerCatch(hc, "update", MsgStoreError)
    ELSE [hc EXCEPT !.pc = "returned", !.success = TRUE, !.httpStatus = 200,
                    !.error = MsgNone]

\* the response after the e-mail was accepted; an update error is logged only
HandlerSuccess(hc, updateError) ==
    [hc EXCEPT !.pc = "returned", !.success = TRUE, !.httpStatus = 200,
               !.error = MsgNone]

Invoke(c, reportId) ==
    /\ h[c].pc \in {"idle", "returned"}
    /\ h' = [h EXCEPT ![c] = [HIdle EXCEPT !.pc = "received", !.reportId = reportId]]

\* a request made directly to the function (the list view's "Email Report"
\* button, or any other HTTP client); the body may lack a report id or
\* carry an id that names no row
DirectRequest ==
    /\ \E reportId \in {NoId} \cup ReportIds : Invoke("direct", reportId)
    /\ UNCHANGED <<service_reports, service_report_photos, nextPhotoId, detail, list, form>>
    /\ UNCHANGED outsideLifecycle

handlerLoad(c) ==
    /\ h[c].pc = "received"
    /\ \E storeError \in BOOLEAN :
          LET res == Single(h[c].reportId, storeError)
              err == HandlerLoadError(h[c].reportId, res) IN
          h' = [h EXCEPT ![c] =
                  IF err # MsgNone
                  THEN HandlerCatch(h[c], HandlerLoadCause(h[c].reportId, storeError), err)
                  ELSE [h[c] EXCEPT !.pc = "loaded", !.loaded = res.data]]
    /\ UNCHANGED <<service_reports, service_report_photos, nextPhotoId, detail, list, form>>
    /\ UNCHANGED outsideLifecycle

handlerSend(c) ==
    /\ h[c].pc = "loaded"
    /\ \E providerError \in BOOLEAN :
          h' = [h EXCEPT ![c] =
                  IF providerError
                  THEN HandlerCatch([h[c] EXCEPT !.emails = @ + EmailSendCalls(TRUE)],
                                    "provider", MsgEmailFailed)
                  ELSE [h[c] EXCEPT !.pc = "sent", !.emails = @ + EmailSendCalls(FALSE)]]
    /\ UNCHANGED <<service_reports, service_report_photos, nextPhotoId, detail, list, form>>
    /\ UNCHANGED outsideLifecycle

handlerUpdate(c) ==
    /\ h[c].pc = "sent"
    /\ LET r == h[c].reportId IN
       IF HandlerShouldUpdate(h[c].loaded)
       THEN \E updateError \in BOOLEAN :
              LET applied == ~updateError /\ Present(r) IN
              /\ service_reports' =
                    IF applied
                    THEN [service_reports EXCEPT ![r] = StatusCompleted(@)]
                    ELSE service_reports
              /\ h' = [h EXCEPT ![c] =
                        HandlerSuccess([h[c] EXCEPT !.updates = @ + 1,
                                                    !.writes = IF applied THEN @ + 1 ELSE @,
                                                    !.updateError = updateError],
                                       updateError)]
       ELSE /\ service_reports' = service_reports
            /\ h' = [h EXCEPT ![c] = HandlerSuccess(h[c], FALSE)]
    /\ UNCHANGED <<service_report_photos, nextPhotoId, detail, list, form>>
    /\ UNCHANGED outsideLifecycle

\* ------------------------------------------- ServiceReportForm (create)
FormValues == [customer_id : Customers]

FormIdle == [pc |-> "idle", newId |-> NoId, photos |-> 0]

\* mutant: the new report is stored as completed
CreateReportDataCompleted(values) ==
    [row |-> "present", status |-> "completed", customer_id |-> values.customer_id]

\* const reportData = { ..., status: 'draft' }
CreateReportData(values) ==
    [row |-> "present", status |-> "draft", customer_id |-> values.customer_id]

\* id generated by the store for the inserted row
NewReportId == CHOOSE r \in ReportIds :
                  /\ service_reports[r].row = "absent"
                  /\ \A q \in ReportIds : q < r => service_reports[q].row # "absent"

\* photos.map((photoUrl, index) => ({ service_report_id, photo_url, order_index: index }))
PhotoRecords(reportId, n, firstId) ==
    { [id |-> firstId + i, service_report_id |-> reportId, order_index |-> i] :
        i \in 0..(n - 1) }

\* onSubmit up to the insert of the report row
ServiceReportForm_onSubmit ==
    /\ form.pc = "idle"
    /\ \E r \in ReportIds : service_reports[r].row = "absent"
    /\ \E values \in FormValues, n \in 0..MaxFormPhotos, storeError \in BOOLEAN :
          IF storeError \/ ~CustomerExists(values.customer_id)
          THEN UNCHANGED <<service_reports, form>>
          ELSE /\ service_reports' =
                    [service_reports EXCEPT ![NewReportId] = CreateReportData(values)]
               /\ form' = IF n > 0
                          THEN [pc |-> "photos", newId |-> NewReportId, photos |-> n]
                          ELSE FormIdle
    /\ UNCHANGED <<service_report_photos, nextPhotoId, h, detail, list>>
    /\ UNCHANGED outsideLifecycle

\* onSubmit from the insert of the photo rows; a photo error is logged only
ServiceReportForm_insertPhotos ==
    /\ form.pc = "photos"
    /\ \E photoError \in BOOLEAN :
          IF ~photoError /\ Present(form.newId)
          THEN /\ service_report_photos' = service_report_photos \cup
                      PhotoRecords(form.newId, form.photos, nextPhotoId)
               /\ nextPhotoId' = nextPhotoId + form.photos
          ELSE UNCHANGED <<service_report_photos, nextPhotoId>>
    /\ form' = FormIdle
    /\ UNCHANGED <<service_reports, h, detail, list>>
    /\ UNCHANGED outsideLifecycle

\* ---------------------------------------------------- ServiceReportEdit
\* mutant: the edit writes the status of the create payload
EditUpdateDataWithStatus(row, values) ==
    [row EXCEPT !.customer_id = values.customer_id, !.status = "draft"]

\* mutant: saving the edit form finalizes the report
EditUpdateDataFinalizes(row, values) ==
    [row EXCEPT !.customer_id = values.customer_id, !.status = "completed"]

\* const updateData = { customer_id, ..., updated_at }: no status field
EditUpdateData(row, values) == [row EXCEPT !.customer_id = values.customer_id]

ServiceReportEdit_onSubmit ==
    /\ \E r \in ReportIds, values \in FormValues, storeError \in BOOLEAN :
          /\ Created(r)
          /\ service_reports' =
                IF ~storeError /\ Present(r) /\ CustomerExists(values.customer_id)
                THEN [service_reports EXCEPT ![r] = EditUpdateData(@, values)]
                ELSE service_reports
    /\ UNCHANGED <<service_report_photos, nextPhotoId, h, detail, list, form>>
    /\ UNCHANGED outsideLifecycle

\* ---------------------------------------------------- ServiceReportList
\* The list offers Finalize for a row its last fetch showed as draft and
\* Delete for every fetched row.  A fetch may fail and leave the list
\* stale, so the buttons can be pressed for any report that was created.
\* photosBefore: the photo rows the report had when deleteReport was called
ListIdle == [pc |-> "idle", reportId |-> NoId, photosBefore |-> {}]

ServiceReportList_finalizeReport_start ==
    /\ list.pc = "idle"
    /\ \E r \in ReportIds :
          /\ Created(r)
          /\ list' = [ListIdle EXCEPT !.pc = "finalizing", !.reportId = r]
    /\ UNCHANGED <<service_reports, service_report_photos, nextPhotoId, h, detail, form>>
    /\ UNCHANGED outsideLifecycle

ServiceReportList_finalizeReport ==
    /\ list.pc = "finalizing"
    /\ \E storeError \in BOOLEAN :
          service_reports' =
             IF ~storeError /\ Present(list.reportId)
             THEN [service_reports EXCEPT ![list.reportId] = StatusCompleted(@)]
             ELSE service_reports
    /\ list' = ListIdle
    /\ UNCHANGED <<service_report_photos, nextPhotoId, h, detail, form>>
    /\ UNCHANGED outsideLifecycle

PhotosOf(r) == { p \in service_report_photos : p.service_report_id = r }

deleteReport_start ==
    /\ list.pc = "idle"
    /\ \E r \in ReportIds :
          /\ Created(r)
          /\ list' = [ListIdle EXCEPT !.pc = "deletingPhotos", !.reportId = r,
                                      !.photosBefore = PhotosOf(r)]
    /\ UNCHANGED <<service_reports, service_report_photos, nextPhotoId, h, detail, form>>
    /\ UNCHANGED outsideLifecycle

\* mutant: the error of the photo delete is logged and the function goes on
PhotosErrorLoggedOnly(photosError) == FALSE

\* if (photosError) throw photosError
PhotosErrorThrown(photosError) == photosError

deleteReport_photos ==
    /\ list.pc = "deletingPhotos"
    /\ \E photosError \in BOOLEAN :
          /\ service_report_photos' =
                IF photosError THEN service_report_photos
                ELSE service_report_photos \ PhotosOf(list.reportId)
          /\ list' = IF PhotosErrorThrown(photosError) THEN ListIdle
                     ELSE [list EXCEPT !.pc = "deletingReport"]
    /\ UNCHANGED <<service_reports, nextPhotoId, h, detail, form>>
    /\ UNCHANGED outsideLifecycle

\* the store rejects the delete of a report that photo rows still reference
deleteReport_report ==
    /\ list.pc = "deletingReport"
    /\ \E storeError \in BOOLEAN :
          service_reports' =
             IF ~storeError /\ Present(list.reportId) /\ PhotosOf(list.reportId) = {}
             THEN [service_reports EXCEPT ![list.reportId] = DeletedRow]
             ELSE service_reports
    /\ list' = ListIdle
    /\ UNCHANGED <<service_report_photos, nextPhotoId, h, detail, form>>
    /\ UNCHANGED outsideLifecycle

\* -------------------------------------------------- ServiceReportDetail
DetailIdle == [pc |-> "idle", reportId |-> NoId, report |-> "null",
               updating |-> FALSE, loading |-> FALSE, fromSend |-> FALSE,
               result |-> "none", before |-> "none", finalizeWrites |-> 0]

\* useEffect -> fetchReport: .single() fails when the row is gone
fetchReport ==
    /\ detail.pc = "idle"
    /\ \E r \in ReportIds, storeError \in BOOLEAN :
          /\ Created(r)
          /\ detail' = [DetailIdle EXCEPT
                          !.reportId = r,
                          !.report = IF storeError \/ ~Present(r)
                                     THEN "null"
                                     ELSE service_reports[r].status]
    /\ UNCHANGED <<service_reports, service_report_photos, nextPhotoId, h, list, form>>
    /\ UNCHANGED outsideLifecycle

\* the Finalize button is rendered while report.status === 'draft'
ServiceReportDetail_finalizeReport_start ==
    /\ detail.pc = "idle"
    /\ detail.report = "draft"
    /\ detail' = [detail EXCEPT !.pc = "finalizing", !.updating = TRUE,
                                !.fromSend = FALSE]
    /\ UNCHANGED <<service_reports, service_report_photos, nextPhotoId, h, list, form>>
    /\ UNCHANGED outsideLifecycle

ServiceReportDetail_finalizeReport ==
    /\ detail.pc = "finalizing"
    /\ \E storeError \in BOOLEAN :
          LET applied == ~storeError /\ Present(detail.reportId) IN
          /\ service_reports' =
                IF applied
                THEN [service_reports EXCEPT ![detail.reportId] = StatusCompleted(@)]
                ELSE service_reports
          /\ detail' = [detail EXCEPT
                          !.pc = "done",
                          !.updating = FALSE,
                          !.report = IF storeError THEN @ ELSE "completed",
                          !.before = IF applied
                                     THEN service_reports[detail.reportId].status
                                     ELSE "none",
                          !.finalizeWrites = IF applied /\ detail.fromSend THEN @ + 1 ELSE @]
    /\ UNCHANGED <<service_report_photos, nextPhotoId, h, list, form>>
    /\ UNCHANGED outsideLifecycle

\* handleSendReport -> generateAndSendReport up to functions.invoke
generateAndSendReport_start ==
    /\ detail.pc = "idle"
    /\ detail.report # "null"
    /\ detail' = [detail EXCEPT !.pc = "sending", !.loading = TRUE,
                                !.fromSend = FALSE]
    /\ Invoke("detail", detail.reportId)
    /\ UNCHANGED <<service_reports, service_report_photos, nextPhotoId, list, form>>
    /\ UNCHANGED outsideLifecycle

\* mutant: every response that arrives counts as success
GenerateAndSendReportIgnoresFailure(transportError, hc) == ~transportError

\* functions.invoke gives an error for a non-2xx response or a transport
\* failure; otherwise the result is data.success
GenerateAndSendReportResult(transportError, hc) ==
    ~transportError /\ hc.httpStatus = 200 /\ hc.success

\* mutant: the result of the dispatch is not looked at
ShouldFinalizeIgnoresSuccess(success, report) == report = "draft"

\* if (success && report?.status === 'draft') await finalizeReport()
ShouldFinalizeAfterSend(success, report) == success /\ report = "draft"

\* generateAndSendReport from the response on, then the rest of handleSendReport
handleSendReport ==
    /\ detail.pc = "sending"
    /\ h["detail"].pc = "returned"
    /\ \E transportError \in BOOLEAN :
          LET success == GenerateAndSendReportResult(transportError, h["detail"]) IN
          detail' = IF ShouldFinalizeAfterSend(success, detail.report)
                    THEN [detail EXCEPT !.pc = "finalizing", !.loading = FALSE,
                                        !.updating = TRUE, !.fromSend = TRUE,
                                        !.result = "true"]
                    ELSE [detail EXCEPT !.pc = "done", !.loading = FALSE,
                                        !.result = IF success THEN "true" ELSE "false"]
    /\ UNCHANGED <<service_reports, service_report_photos, nextPhotoId, h, list, form>>
    /\ UNCHANGED outsideLifecycle

\* the click handler has returned and the component shows its buttons again;
\* the response and the counters of the finished action are dropped
ServiceReportDetail_rendered ==
    /\ detail.pc = "done"
    /\ detail' = [DetailIdle EXCEPT !.reportId = detail.reportId,
                                    !.report = detail.report]
    /\ h' = [h EXCEPT !["detail"] = HIdle]
    /\ UNCHANGED <<service_reports, service_report_photos, nextPhotoId, list, form>>
    /\ UNCHANGED outsideLifecycle

\* -------------------------------------------------------- useSMSService
SmsFns == {"sendServiceDueNotification", "sendCustomSMS"}
Phones == {"0400000001"}
Names == {"Ann"}
Dates == {"2025-07-01"}
Texts == {"hello"}

\* new Date(nextServiceDate).toLocaleDateString()
ToLocaleDateString(date) == <<"locale", date>>

\* the reminder template of sendServiceDueNotification
DueMessage(customerName, nextServiceDate) ==
    <<"Hi ", customerName,
      ", this is Australian Vacuum Services. Your equipment service is due on ",
      ToLocaleDateString(nextServiceDate),
      ". Please contact us to schedule your appointment. Thank you!">>

\* sendCustomSMS sends the text as given
CustomMessage(message) == <<message>>

SmsIdle == [pc |-> "idle", customerId |-> "c1", phone |-> "0400000001",
            message |-> <<>>, loading |-> FALSE, smsResult |-> "none",
            inserted |-> 0, returned |-> "none"]

\* mutant: the status is left to the column default
SmsStatusDefault(smsResult) == "pending"

\* status: smsResult?.success ? 'sent' : 'failed'
SmsStatus(smsResult) == IF smsResult = "success" THEN "sent" ELSE "failed"

\* the row both functions insert into sms_notifications
SmsRow(call) ==
    [customer_id |-> call.customerId, phone_number |-> call.phone,
     message |-> call.message, status |-> SmsStatus(call.smsResult)]

\* mutant: only a message the provider accepted is recorded
SmsRowsOnlySent(call) ==
    IF call.smsResult = "success" THEN <<SmsRow(call)>> ELSE <<>>

\* .from('sms_notifications').insert({...}): one row, sent or failed
SmsRowsToInsert(call) == <<SmsRow(call)>>

InFlight == Cardinality({ f \in SmsFns : sms[f].pc \in {"invoked", "responded"} })

\* setLoading(true), the message, and the request to the send-sms function
SmsStart(f, customerId, phone, message) ==
    /\ sms[f].pc = "idle"
    /\ Len(sms_notifications) + InFlight < MaxSmsRows
    /\ sms' = [sms EXCEPT ![f] =
                 [SmsIdle EXCEPT !.pc = "invoked", !.customerId = customerId,
                                 !.phone = phone, !.message = message,
                                 !.loading = TRUE]]
    /\ UNCHANGED sms_notifications
    /\ UNCHANGED outsideSms

sendServiceDueNotification_start ==
    /\ \E customerId \in Customers, phone \in Phones,
          customerName \in Names, nextServiceDate \in Dates :
            SmsStart("sendServiceDueNotification", customerId, phone,
                     DueMessage(customerName, nextServiceDate))
    /\ UNCHANGED reminder

sendCustomSMS_start ==
    /\ \E customerId \in Customers, phone \in Phones, message \in Texts :
            SmsStart("sendCustomSMS", customerId, phone, CustomMessage(message))
    /\ UNCHANGED reminder

\* functions.invoke('send-sms') answers: an error of the call itself, or the
\* provider's payload with success true or not.  if (smsError) throw ...
SmsProviderOutcomes == {"error", "success", "failure"}

\* mutant: the error of the call is logged and the function goes on
SmsErrorLoggedOnly(outcome) == FALSE

\* if (smsError) { ...; throw new Error(smsError.message || 'Failed to send SMS') }
SmsErrorThrown(outcome) == outcome = "error"

\* mutant: the flag is cleared on no path out of the function
SmsNoFinally(call) == call

\* finally { setLoading(false) }
SmsFinally(call) == [call EXCEPT !.loading = FALSE]

SmsInvoked(f) ==
    /\ sms[f].pc = "invoked"
    /\ \E outcome \in SmsProviderOutcomes :
          sms' = [sms EXCEPT ![f] =
                    IF SmsErrorThrown(outcome)
                    THEN SmsFinally([@ EXCEPT !.pc = "done",
                                              !.smsResult = outcome, !.returned = "false"])
                    ELSE [@ EXCEPT !.pc = "responded", !.smsResult = outcome]]
    /\ UNCHANGED <<sms_notifications, reminder>>
    /\ UNCHANGED outsideSms

\* mutant: the write replaces the newest row instead of adding one
UpsertRows(table, rows) ==
    IF table = <<>> THEN rows ELSE SubSeq(table, 1, Len(table) - 1) \o rows

\* .insert({...}) adds rows and touches no stored row
InsertRows(table, rows) == table \o rows

\* the insert into sms_notifications; if (error) throw error; return true
SmsInsert(f) ==
    /\ sms[f].pc = "responded"
    /\ \E insertError \in BOOLEAN :
          IF insertError \/ ~CustomerExists(sms[f].customerId)
          THEN /\ sms' = [sms EXCEPT ![f] =
                            SmsFinally([@ EXCEPT !.pc = "done", !.returned = "false"])]
               /\ UNCHANGED sms_notifications
          ELSE /\ sms_notifications' = InsertRows(sms_notifications, SmsRowsToInsert(sms[f]))
               /\ sms' = [sms EXCEPT ![f] =
                            SmsFinally([@ EXCEPT !.pc = "done",
                                        !.inserted = @ + Len(SmsRowsToInsert(sms[f])),
                                        !.returned = "true"])]
    /\ UNCHANGED reminder
    /\ UNCHANGED outsideSms

\* the caller has its answer; the hook is ready for the next call
SmsReturned(f) ==
    /\ sms[f].pc = "done"
    /\ sms' = [sms EXCEPT ![f] = SmsIdle]
    /\ UNCHANGED <<sms_notifications, reminder>>
    /\ UNCHANGED outsideSms

\* ------------------------------------------------ handleSendSMSReminder
\* The handler of the "SMS Reminder" button of the report list and of the
\* report detail view.  It reads the report the view fetched earlier
\* (customer:customers(id, name, phone) joined in); its button is disabled
\* while the view's useSMSService call is in flight.
ReminderViews == {"list", "detail"}
CustomerPhones == Phones \cup {"", Null}
NextServiceDates == Dates \cup {Null}

ReportSnapshots ==
    [customer : [id : Customers, name : Names, phone : CustomerPhones],
     next_service_date : NextServiceDates]

ToastNone == "none"
ToastNoPhone == "Customer phone number not available"
ToastNoDate == "Next service date not set for this report"

ReminderIdle ==
    [view |-> "none",
     report |-> [customer |-> [id |-> "c1", name |-> "Ann", phone |-> Null],
                 next_service_date |-> Null],
     toast |-> ToastNone]

\* mutant: every value counts as present
NotNever(v) == FALSE

\* !v for a string or null: true for null and for the empty string
Not(v) == v \in {"", Null}

handleSendSMSReminder(view) ==
    \E report \in ReportSnapshots :
        IF Not(report.customer.phone)
        THEN /\ reminder' = [view |-> view, report |-> report, toast |-> ToastNoPhone]
             /\ UNCHANGED <<sms_notifications, sms>>
             /\ UNCHANGED outsideSms
        ELSE IF Not(report.next_service_date)
        THEN /\ reminder' = [view |-> view, report |-> report, toast |-> ToastNoDate]
             /\ UNCHANGED <<sms_notifications, sms>>
             /\ UNCHANGED outsideSms
        ELSE /\ SmsStart("sendServiceDueNotification", report.customer.id,
                         report.customer.phone,
                         DueMessage(report.customer.name, report.next_service_date))
             /\ reminder' = [view |-> view, report |-> report, toast |-> ToastNone]

\* ------------------------------------------------------ AuthProvider
\* The auth client holds the current session (null when signed out).  The
\* effect of AuthProvider subscribes to its events and calls
\* getInitialSession; getSession answers with the session the client holds
\* when it reads it, and the code after the await runs in a later turn of
\* the event loop, so event callbacks can run in between.
MaxAuthEvents == 2
Sessions == {"s1", "s2"}

\* session?.user ?? null
SessionUser(session) ==
    IF session = Null THEN Null
    ELSE IF session = "s1" THEN "u1" ELSE "u2"

\* useState(null), useState(null), useState(true); the effect has run
AuthMountedWith(clientSession) ==
    [user |-> Null, session |-> Null, loading |-> TRUE,
     pc |-> "getSession", data |-> Null, error |-> FALSE,
     client |-> clientSession, events |-> <<>>, emitted |-> 0]

\* await supabase.auth.getSession(): the client answers
getSession ==
    /\ auth.pc = "getSession"
    /\ \E error \in BOOLEAN :
          auth' = [auth EXCEPT !.pc = "resolved", !.error = error,
                               !.data = IF error THEN Null ELSE auth.client]
    /\ UNCHANGED outsideAuth

\* the rest of getInitialSession, after the await
getInitialSession ==
    /\ auth.pc = "resolved"
    /\ auth' = IF auth.error
               THEN [auth EXCEPT !.pc = "done", !.loading = FALSE]
               ELSE [auth EXCEPT !.pc = "done", !.loading = FALSE,
                                 !.session = auth.data,
                                 !.user = SessionUser(auth.data)]
    /\ UNCHANGED outsideAuth

\* a sign-in or sign-out (signIn, signOut, another tab): the client takes
\* the new session and queues the event for its subscribers
authStateChange ==
    /\ auth.emitted < MaxAuthEvents
    /\ \E s \in Sessions \cup {Null} :
          /\ s # auth.client
          /\ auth' = [auth EXCEPT
                        !.client = s,
                        !.emitted = @ + 1,
                        !.events = Append(@, [event |-> IF s = Null THEN "SIGNED_OUT"
                                                        ELSE "SIGNED_IN",
                                              session |-> s])]
    /\ UNCHANGED outsideAuth

\* the callback given to supabase.auth.onAuthStateChange
onAuthStateChange ==
    /\ auth.events # <<>>
    /\ LET session == Head(auth.events).session
       IN  auth' = [auth EXCEPT !.events = Tail(@),
                                !.session = session,
                                !.user = SessionUser(session),
                                !.loading = FALSE]
    /\ UNCHANGED outsideAuth

\* ------------------------------------------------- DeleteCustomerDialog
\* The dialog is opened from a customer list that was fetched earlier, so
\* the customer it holds may have been deleted by another client meanwhile.
DialogIdle == [pc |-> "idle", customer |-> "c1", outcome |-> "none", onSuccess |-> FALSE]

\* .from('service_reports').select('id').eq('customer_id', customer.id)
ReportsOf(c) ==
    { r \in ReportIds : Present(r) /\ service_reports[r].customer_id = c }

\* rows of sms_notifications whose customer_id names the customer
SmsOf(c) ==
    { i \in 1..Len(sms_notifications) : sms_notifications[i].customer_id = c }

\* the store rejects the delete of a customer that a report or an SMS row
\* still references (foreign keys without ON DELETE rule)
CustomerReferenced(c) == ReportsOf(c) # {} \/ SmsOf(c) # {}

\* mutant: the dialog never finds reports
HasReportsNever(reports) == FALSE

\* if (reports && reports.length > 0)
HasReports(reports) == reports # {}

\* handleDelete up to the answer of the reports query
handleDelete_check ==
    /\ dialog.pc = "idle"
    /\ \E c \in Customers, reportsError \in BOOLEAN :
          dialog' =
             IF reportsError
             THEN [pc |-> "done", customer |-> c, outcome |-> "error", onSuccess |-> FALSE]
             ELSE IF HasReports(ReportsOf(c))
             THEN [pc |-> "done", customer |-> c, outcome |-> "rejected", onSuccess |-> FALSE]
             ELSE [pc |-> "deleting", customer |-> c, outcome |-> "none", onSuccess |-> FALSE]
    /\ UNCHANGED customers
    /\ UNCHANGED outsideCustomers

\* handleDelete from the delete of the customer row; a delete that matches
\* no row is no error
handleDelete_delete ==
    /\ dialog.pc = "deleting"
    /\ \E storeError \in BOOLEAN :
          LET error == storeError \/ CustomerReferenced(dialog.customer)
          IN  /\ customers' = IF error THEN customers
                              ELSE [customers EXCEPT ![dialog.customer] = "deleted"]
              /\ dialog' = [dialog EXCEPT !.pc = "done",
                                          !.outcome = IF error THEN "error" ELSE "success",
                                          !.onSuccess = ~error]
    /\ UNCHANGED outsideCustomers

\* finally { onClose() }: the dialog is closed and can be opened again
DeleteCustomerDialog_onClose ==
    /\ dialog.pc = "done"
    /\ dialog' = DialogIdle
    /\ UNCHANGED customers
    /\ UNCHANGED outsideCustomers

\* ---------------------------------------------------------- uploadPhotos
\* uploadPhotos of ServiceReportEdit stores each file and inserts its photo
\* row; uploadPhotos of ServiceReportForm stores each file only.  The files
\* of a batch are handled by concurrent tasks joined with Promise.all; a
\* task answers its result or null and never rejects.  `upload` is the
\* batch in flight, in one form or the other.
UploadForms == {"edit", "create"}

PendingTask == [st |-> "pending", id |-> NoId]

UploadIdle == [pc |-> "idle", form |-> "create", reportId |-> NoId, base |-> 0,
               files |-> <<>>, tasks |-> <<>>]

\* the files the user picks, by name
FileNames == {"a.jpg", "b.jpg"}

\* reader.readAsDataURL(file): the preview shows the content of the file
Preview(file) == <<"data:", file>>

\* the `photos` state of the form a batch belongs to
PhotosState(f) == IF f = "edit" THEN editPhotos ELSE createPhotos

\* the state in which a task has its result: the inserted row in the edit
\* form, the public URL in the create form
TaskSucceeded(f) == IF f = "edit" THEN "recorded" ELSE "uploaded"

TaskSettled(f, t) == t.st \in {"failed", TaskSucceeded(f)}

\* setUploading(true) and files.map(async ...): every task is started
uploadPhotos_start ==
    /\ upload.pc = "idle"
    /\ \E f \in UploadForms, n \in 1..MaxFiles, r \in ReportIds :
       \E files \in [1..n -> FileNames] :
          /\ Len(PhotosState(f)) + n <= MaxPhotos
          /\ f = "edit" => (Created(r) /\ nextPhotoId + n <= MaxPhotos + 1)
          /\ f = "create" => Len(photoPreviews) + n <= MaxPhotos
          /\ upload' = [pc |-> "running", form |-> f,
                        reportId |-> IF f = "edit" THEN r ELSE NoId,
                        base |-> Len(PhotosState(f)),
                        files |-> files,
                        tasks |-> [i \in 1..n |-> PendingTask]]
          \* handlePhotoUpload of the create form shows the previews of
          \* all the files before it calls uploadPhotos
          /\ photoPreviews' = IF f = "create"
                              THEN photoPreviews \o [i \in 1..n |-> Preview(files[i])]
                              ELSE photoPreviews
    /\ UNCHANGED <<editPhotos, createPhotos, removal>>
    /\ UNCHANGED <<lifecycleVars, smsVars, customerVars, dashboardVars, authVars>>

\* supabase.storage.from('service-photos').upload(...); if (error) return null
uploadPhotos_upload ==
    /\ upload.pc = "running"
    /\ \E i \in 1..Len(upload.tasks), error \in BOOLEAN :
          /\ upload.tasks[i].st = "pending"
          /\ upload' = [upload EXCEPT !.tasks[i].st =
                          IF error THEN "failed" ELSE "uploaded"]
    /\ UNCHANGED <<editPhotos, createPhotos, photoPreviews, removal>>
    /\ UNCHANGED <<lifecycleVars, smsVars, customerVars, dashboardVars, authVars>>

\* const orderIndex = photos.length + index
OrderIndex(base, i) == base + (i - 1)

\* the row the insert of the edit form stores and returns
PhotoRecord(id, reportId, orderIndex) ==
    [id |-> id, service_report_id |-> reportId, order_index |-> orderIndex]

\* edit form: the insert of the photo row; if (insertError) return null.
\* The store rejects a row whose report does not exist.
uploadPhotos_insert ==
    /\ upload.pc = "running" /\ upload.form = "edit"
    /\ \E i \in 1..Len(upload.tasks), insertError \in BOOLEAN :
          /\ upload.tasks[i].st = "uploaded"
          /\ IF insertError \/ ~Present(upload.reportId)
             THEN /\ upload' = [upload EXCEPT !.tasks[i].st = "failed"]
                  /\ UNCHANGED <<service_report_photos, nextPhotoId>>
             ELSE /\ service_report_photos' = service_report_photos \cup
                        {PhotoRecord(nextPhotoId, upload.reportId,
                                     OrderIndex(upload.base, i))}
                  /\ nextPhotoId' = nextPhotoId + 1
                  /\ upload' = [upload EXCEPT !.tasks[i] =
                                  [st |-> "recorded", id |-> nextPhotoId]]
    /\ UNCHANGED <<editPhotos, createPhotos, photoPreviews, removal>>
    /\ UNCHANGED <<service_reports, h, detail, list, form>>
    /\ UNCHANGED <<smsVars, customerVars, dashboardVars, authVars>>

\* the public URL of the file stored as `${uuidv4()}-${file.name}`; the
\* position of the file in its batch stands for the uuid
PublicUrl(i, file) == <<"service-photos", i, file>>

\* what task i passes to Promise.all: null, the inserted row (edit form) or
\* the public URL (create form)
TaskResult(u, i) ==
    IF u.tasks[i].st # TaskSucceeded(u.form) THEN [null |-> TRUE]
    ELSE IF u.form = "edit"
    THEN [null |-> FALSE,
          value |-> PhotoRecord(u.tasks[i].id, u.reportId, OrderIndex(u.base, i))]
    ELSE [null |-> FALSE, value |-> PublicUrl(i, u.files[i])]

RECURSIVE FilterNotNull(_)
\* newPhotos.filter(photo => photo !== null)
FilterNotNull(results) ==
    IF results = <<>> THEN <<>>
    ELSE IF Head(results).null THEN FilterNotNull(Tail(results))
    ELSE <<Head(results).value>> \o FilterNotNull(Tail(results))

\* mutant: a failed task rejects, Promise.all rejects and nothing is kept
UploadedPhotosAllOrNothing(u) ==
    IF \E i \in 1..Len(u.tasks) : TaskResult(u, i).null THEN <<>>
    ELSE FilterNotNull([i \in 1..Len(u.tasks) |-> TaskResult(u, i)])

\* await Promise.all(...) and the filter of its results
UploadedPhotos(u) == FilterNotNull([i \in 1..Len(u.tasks) |-> TaskResult(u, i)])

\* setPhotos(prevPhotos => [...prevPhotos, ...uploadedPhotos]) once every
\* task has answered
uploadPhotos_finish ==
    /\ upload.pc = "running"
    /\ \A i \in 1..Len(upload.tasks) : TaskSettled(upload.form, upload.tasks[i])
    /\ IF upload.form = "edit"
       THEN /\ editPhotos' = editPhotos \o UploadedPhotos(upload)
            /\ UNCHANGED createPhotos
       ELSE /\ createPhotos' = createPhotos \o UploadedPhotos(upload)
            /\ UNCHANGED editPhotos
    /\ upload' = [upload EXCEPT !.pc = "done"]
    /\ UNCHANGED <<photoPreviews, removal>>
    /\ UNCHANGED <<lifecycleVars, smsVars, customerVars, dashboardVars, authVars>>

\* finally { setUploading(false) }: the next batch can start
uploadPhotos_returned ==
    /\ upload.pc = "done"
    /\ upload' = UploadIdle
    /\ UNCHANGED <<editPhotos, createPhotos, photoPreviews, removal>>
    /\ UNCHANGED <<lifecycleVars, smsVars, customerVars, dashboardVars, authVars>>

\* -------------------------------------------------------- removePhoto
RemovalIdle == [pc |-> "idle", photoId |-> NoId, photos |-> <<>>]

\* edit form: a click on the remove button of a photo; `photos` is the
\* state of the render the button belongs to
ServiceReportEdit_removePhoto_start ==
    /\ removal.pc = "idle"
    /\ \E k \in 1..Len(editPhotos) :
          removal' = [pc |-> "deleting", photoId |-> editPhotos[k].id,
                      photos |-> editPhotos]
    /\ UNCHANGED <<upload, editPhotos, createPhotos, photoPreviews>>
    /\ UNCHANGED <<lifecycleVars, smsVars, customerVars, dashboardVars, authVars>>

\* photos.filter(photo => photo.id !== photoId)
WithoutPhoto(photos, photoId) == SelectSeq(photos, LAMBDA photo : photo.id # photoId)

\* .from('service_report_photos').delete().eq('id', photoId);
\* if (error) throw error; setPhotos(photos.filter(...))
ServiceReportEdit_removePhoto ==
    /\ removal.pc = "deleting"
    /\ \E error \in BOOLEAN :
          IF error
          THEN UNCHANGED <<service_report_photos, editPhotos>>
          ELSE /\ service_report_photos' =
                     { p \in service_report_photos : p.id # removal.photoId }
               /\ editPhotos' = WithoutPhoto(removal.photos, removal.photoId)
    /\ removal' = RemovalIdle
    /\ UNCHANGED <<upload, createPhotos, photoPreviews>>
    /\ UNCHANGED <<service_reports, nextPhotoId, h, detail, list, form>>
    /\ UNCHANGED <<smsVars, customerVars, dashboardVars, authVars>>

\* array.filter((_, index) => index !== indexToRemove), indexToRemove from 0
WithoutIndex(array, indexToRemove) ==
    [ j \in 1..(Len(array) - (IF indexToRemove < Len(array) THEN 1 ELSE 0)) |->
        IF j - 1 < indexToRemove THEN array[j] ELSE array[j + 1] ]

\* create form: the remove button of preview `index` filters both lists
ServiceReportForm_removePhoto ==
    /\ \E index \in 0..(Len(photoPreviews) - 1) :
          /\ createPhotos' = WithoutIndex(createPhotos, index)
          /\ photoPreviews' = WithoutIndex(photoPreviews, index)
    /\ UNCHANGED <<upload, editPhotos, removal>>
    /\ UNCHANGED <<lifecycleVars, smsVars, customerVars, dashboardVars, authVars>>

\* -------------------------------------------------- DraftReportsSummary
\* Time is counted in hours.  An instant is a number of hours since the
\* epoch; a calendar date is a number of days.  The browser runs in a time
\* zone `tz` hours east of UTC, where it is `hour` o'clock on day Today.
HoursPerDay == 24

TzOffsets == {-5, 0, 10}
Today == MaxDays
Days == 0..(2 * MaxDays)

\* completion_date as the store returns it: absent, or a date 'YYYY-MM-DD'
NoDate == <<>>
DateString(d) == <<d>>
CompletionDates == {NoDate} \cup { DateString(d) : d \in Days }

Unrendered == [color |-> "none", text |-> <<>>]

SummaryIdle == [tz |-> 0, hour |-> 0, completion_date |-> NoDate, status |-> Unrendered]

\* new Date(): the instant at which the browser's clock shows `hour` on Today
Now(tz, hour) == Today * HoursPerDay + hour - tz

\* new Date('YYYY-MM-DD').getTime(): a date-only string is midnight UTC
DateGetTime(completionDate) == completionDate[1] * HoursPerDay

\* Math.ceil(a / b) for b > 0; Math.ceil of a value in (-1, 0] is -0, which
\* `< 0` and `=== 0` treat as 0
Ceil(a, b) == -((-a) \div b)

Abs(n) == IF n < 0 THEN -n ELSE n

getDaysUntilCompletion(completionDate, today) ==
    LET completion == DateGetTime(completionDate)
        diffTime == completion - today
    IN  Ceil(diffTime, HoursPerDay)

getCompletionStatus(completionDate, today) ==
    IF completionDate = NoDate
    THEN [color |-> "secondary", text |-> <<"No deadline">>]
    ELSE LET days == getDaysUntilCompletion(completionDate, today)
         IN  IF days < 0
             THEN [color |-> "destructive", text |-> <<ToString(Abs(days)), " days overdue">>]
             ELSE IF days = 0
             THEN [color |-> "destructive", text |-> <<"Due today">>]
             ELSE IF days <= 3
             THEN [color |-> "outline", text |-> <<ToString(days), " days left">>]
             ELSE [color |-> "secondary", text |-> <<ToString(days), " days left">>]

\* the card of a draft report is rendered with its completion status
DraftReportsSummary_render ==
    /\ summary.status = Unrendered
    /\ summary' = [summary EXCEPT !.status =
                      getCompletionStatus(summary.completion_date,
                                          Now(summary.tz, summary.hour))]
    /\ UNCHANGED activity
    /\ UNCHANGED outsideDashboard

\* ----------------------------------------------------- useRecentActivity
\* a timestamp as the store returns it, and new Date(timestamp).getTime()
Timestamp(t) == <<"timestamptz", t>>
GetTime(timestamp) == timestamp[2]
Timestamps == { Timestamp(t) : t \in 1..MaxTime }

ReportRows == [created_at : Timestamps, status : {"draft", "completed"}]
CustomerRows ==
    { c \in [created_at : Timestamps, updated_at : Timestamps] :
         GetTime(c.created_at) <= GetTime(c.updated_at) }

\* the answers of .order(column, { ascending: false }).limit(10): at most
\* MaxFetched rows, newest first
Fetched(rows, column) ==
    { data \in UNION { [1..n -> rows] : n \in 0..MaxFetched } :
         \A i \in 1..(Len(data) - 1) :
             GetTime(data[i][column]) >= GetTime(data[i + 1][column]) }

ActivityIdle == [pc |-> "idle", loading |-> TRUE, reportsData |-> <<>>,
                 customersData |-> <<>>, activities |-> <<>>]

\* (reportsData || []).map(report => ({ ... })); the id of a row is its
\* place in the answer
ReportActivities(reportsData) ==
    [i \in 1..Len(reportsData) |->
        [id |-> i, type |-> "service_report",
         action |-> IF reportsData[i].status = "draft" THEN "drafted" ELSE "created",
         timestamp |-> reportsData[i].created_at,
         status |-> reportsData[i].status]]

\* mutant: every customer counts as new
IsNewAlways(customer) == TRUE

\* const isNew = new Date(customer.created_at).getTime()
\*                 === new Date(customer.updated_at).getTime()
IsNew(customer) == GetTime(customer.created_at) = GetTime(customer.updated_at)

\* (customersData || []).map(customer => { ... }); status is undefined
CustomerActivities(customersData) ==
    [i \in 1..Len(customersData) |->
        [id |-> i, type |-> "customer",
         action |-> IF IsNew(customersData[i]) THEN "created" ELSE "updated",
         timestamp |-> customersData[i].updated_at,
         status |-> "undefined"]]

\* mutant: oldest first
CompareActivitiesAscending(a, b) == GetTime(a.timestamp) - GetTime(b.timestamp)

\* (a, b) => new Date(b.timestamp).getTime() - new Date(a.timestamp).getTime()
CompareActivities(a, b) == GetTime(b.timestamp) - GetTime(a.timestamp)

RECURSIVE InsertSorted(_, _)
\* x goes behind every element that the comparator does not put after it
InsertSorted(x, sorted) ==
    IF sorted = <<>> THEN <<x>>
    ELSE IF CompareActivities(Head(sorted), x) <= 0
    THEN <<Head(sorted)>> \o InsertSorted(x, Tail(sorted))
    ELSE <<x>> \o sorted

RECURSIVE Sort(_)
\* Array.prototype.sort with the comparator: a stable sort
Sort(items) ==
    IF items = <<>> THEN <<>>
    ELSE InsertSorted(items[Len(items)], Sort(SubSeq(items, 1, Len(items) - 1)))

\* .slice(0, 5)
SliceEnd == 5
Slice(items) == SubSeq(items, 1, IF Len(items) < SliceEnd THEN Len(items) ELSE SliceEnd)

\* [...reportActivities, ...customerActivities].sort(...).slice(0, 5)
AllActivities(reportsData, customersData) ==
    Slice(Sort(ReportActivities(reportsData) \o CustomerActivities(customersData)))

\* setLoading(true) and the reports query; if (reportsError) throw
fetchRecentActivity_reports ==
    /\ activity.pc = "idle"
    /\ \E reportsError \in BOOLEAN, data \in Fetched(ReportRows, "created_at") :
          activity' =
             IF reportsError
             THEN [activity EXCEPT !.pc = "failed", !.loading = FALSE]
             ELSE [activity EXCEPT !.pc = "reports", !.loading = TRUE,
                                   !.reportsData = data]
    /\ UNCHANGED summary
    /\ UNCHANGED outsideDashboard

\* the customers query; if (customersError) throw; setActivities(allActivities)
fetchRecentActivity_customers ==
    /\ activity.pc = "reports"
    /\ \E customersError \in BOOLEAN, data \in Fetched(CustomerRows, "updated_at") :
          activity' =
             IF customersError
             THEN [activity EXCEPT !.pc = "failed", !.loading = FALSE]
             ELSE [activity EXCEPT !.pc = "done", !.loading = FALSE,
                                   !.customersData = data,
                                   !.activities = AllActivities(activity.reportsData, data)]
    /\ UNCHANGED summary
    /\ UNCHANGED outsideDashboard

\* the component that uses the hook goes away; the next mount starts anew
useRecentActivity_unmount ==
    /\ activity.pc \in {"done", "failed"}
    /\ activity' = ActivityIdle
    /\ UNCHANGED summary
    /\ UNCHANGED outsideDashboard

\* ------------------------------------------------------------------- Init
\* no component has acted yet; the store holds the customers and no report
InitViews ==
    /\ service_report_photos = {}
    /\ nextPhotoId = 1
    /\ h = [c \in Callers |-> HIdle]
    /\ detail = DetailIdle
    /\ list = ListIdle
    /\ form = FormIdle
    /\ sms = [f \in SmsFns |-> SmsIdle]
    /\ reminder = ReminderIdle
    /\ customers = [c \in Customers |-> "present"]
    /\ dialog = DialogIdle
    /\ upload = UploadIdle
    /\ editPhotos = <<>>
    /\ createPhotos = <<>>
    /\ photoPreviews = <<>>
    /\ removal = RemovalIdle
    /\ activity = ActivityIdle

Init ==
    /\ InitViews
    /\ service_reports = [r \in ReportIds |-> AbsentRow]
    /\ summary = SummaryIdle
    /\ auth = AuthMountedWith(Null)
    /\ sms_notifications = <<>>

Next ==
    \/ ServiceReportForm_onSubmit
    \/ ServiceReportForm_insertPhotos
    \/ ServiceReportEdit_onSubmit
    \/ ServiceReportList_finalizeReport_start
    \/ ServiceReportList_finalizeReport
    \/ deleteReport_start
    \/ deleteReport_photos
    \/ deleteReport_report
    \/ fetchReport
    \/ ServiceReportDetail_finalizeReport_start
    \/ ServiceReportDetail_finalizeReport
    \/ generateAndSendReport_start
    \/ handleSendReport
    \/ ServiceReportDetail_rendered
    \/ \E c \in Callers : handlerLoad(c)
    \/ \E c \in Callers : handlerSend(c)
    \/ \E c \in Callers : handlerUpdate(c)

Spec == Init /\ [][Next]_vars

NextDispatch ==
    \/ ServiceReportForm_onSubmit
    \/ ServiceReportForm_insertPhotos
    \/ ServiceReportEdit_onSubmit
    \/ ServiceReportList_finalizeReport_start
    \/ ServiceReportList_finalizeReport
    \/ deleteReport_start
    \/ deleteReport_photos
    \/ deleteReport_report
    \/ DirectRequest
    \/ \E c \in Callers : handlerLoad(c)
    \/ \E c \in Callers : handlerSend(c)
    \/ \E c \in Callers : handlerUpdate(c)

SpecDispatch == Init /\ [][NextDispatch]_vars

NextSMS ==
    \/ sendServiceDueNotification_start
    \/ sendCustomSMS_start
    \/ \E f \in SmsFns : SmsInvoked(f)
    \/ \E f \in SmsFns : SmsInsert(f)
    \/ \E f \in SmsFns : SmsReturned(f)

SpecSMS == Init /\ [][NextSMS]_vars

\* the SMS hook next to the deletion of customers
NextReminder ==
    \/ \E view \in ReminderViews : handleSendSMSReminder(view)
    \/ \E f \in SmsFns : SmsInvoked(f)
    \/ \E f \in SmsFns : SmsInsert(f)
    \/ \E f \in SmsFns : SmsReturned(f)

SpecReminder == Init /\ [][NextReminder]_vars

NextAuth ==
    \/ getSession
    \/ getInitialSession
    \/ authStateChange
    \/ onAuthStateChange

\* the page is loaded with or without a session kept by the auth client
InitAuth ==
    /\ InitViews
    /\ service_reports = [r \in ReportIds |-> AbsentRow]
    /\ summary = SummaryIdle
    /\ auth \in { AuthMountedWith(s) : s \in Sessions \cup {Null} }
    /\ sms_notifications = <<>>

SpecAuth == InitAuth /\ [][NextAuth]_vars

NextSmsCustomers ==
    \/ sendServiceDueNotification_start
    \/ sendCustomSMS_start
    \/ \E f \in SmsFns : SmsInvoked(f)
    \/ \E f \in SmsFns : SmsInsert(f)
    \/ \E f \in SmsFns : SmsReturned(f)
    \/ handleDelete_check
    \/ handleDelete_delete
    \/ DeleteCustomerDialog_onClose

SpecSmsCustomers == Init /\ [][NextSmsCustomers]_vars

\* creation, edit and deletion of reports next to the deletion of customers
NextCustomers ==
    \/ ServiceReportForm_onSubmit
    \/ ServiceReportForm_insertPhotos
    \/ ServiceReportEdit_onSubmit
    \/ deleteReport_start
    \/ deleteReport_photos
    \/ deleteReport_report
    \/ handleDelete_check
    \/ handleDelete_delete
    \/ DeleteCustomerDialog_onClose

SpecCustomers == Init /\ [][NextCustomers]_vars

\* the photo batches of the two forms.  The edit form is open on a report,
\* so the store holds one: the state after a first ServiceReportForm_onSubmit
\* without photos.
InitUpload ==
    /\ InitViews
    /\ service_reports =
          [r \in ReportIds |->
              IF r = 1 THEN CreateReportData([customer_id |-> "c1"]) ELSE AbsentRow]
    /\ summary = SummaryIdle
    /\ auth = AuthMountedWith(Null)
    /\ sms_notifications = <<>>

NextUpload ==
    \/ uploadPhotos_start
    \/ uploadPhotos_upload
    \/ uploadPhotos_insert
    \/ uploadPhotos_finish
    \/ uploadPhotos_returned

SpecUpload == InitUpload /\ [][NextUpload]_vars

\* The four operations with a busy flag, on a stored report: finalize and
\* delete in the list, finalize and e-mail dispatch in the detail view, and
\* the SMS reminder.  A click may or may not come; a call that was sent to
\* the store, to generate-and-send-report or to send-sms gets its answer,
\* and the code after the await then runs.
NextLive ==
    \/ ServiceReportList_finalizeReport_start
    \/ ServiceReportList_finalizeReport
    \/ deleteReport_start
    \/ deleteReport_photos
    \/ deleteReport_report
    \/ fetchReport
    \/ ServiceReportDetail_finalizeReport_start
    \/ ServiceReportDetail_finalizeReport
    \/ generateAndSendReport_start
    \/ handleSendReport
    \/ ServiceReportDetail_rendered
    \/ handlerLoad("detail")
    \/ handlerSend("detail")
    \/ handlerUpdate("detail")
    \/ sendServiceDueNotification_start
    \/ SmsInvoked("sendServiceDueNotification")
    \/ SmsInsert("sendServiceDueNotification")
    \/ SmsReturned("sendServiceDueNotification")

CallsReturn ==
    /\ WF_vars(ServiceReportList_finalizeReport)
    /\ WF_vars(deleteReport_photos)
    /\ WF_vars(deleteReport_report)
    /\ WF_vars(ServiceReportDetail_finalizeReport)
    /\ WF_vars(handleSendReport)
    /\ WF_vars(handlerLoad("detail"))
    /\ WF_vars(handlerSend("detail"))
    /\ WF_vars(handlerUpdate("detail"))
    /\ WF_vars(SmsInvoked("sendServiceDueNotification"))
    /\ WF_vars(SmsInsert("sendServiceDueNotification"))

\* a reminder that was sent and recorded earlier
EarlierReminder ==
    SmsRow([SmsIdle EXCEPT !.message = DueMessage("Ann", "2025-07-01"),
                           !.smsResult = "success"])

\* a stored draft, and a log of reminders with room for one more row
InitLive ==
    /\ InitViews
    /\ service_reports =
          [r \in ReportIds |->
              IF r = 1 THEN CreateReportData([customer_id |-> "c1"]) ELSE AbsentRow]
    /\ summary = SummaryIdle
    /\ auth = AuthMountedWith(Null)
    /\ sms_notifications = [i \in 1..(MaxSmsRows - 1) |-> EarlierReminder]

SpecLive == InitLive /\ [][NextLive]_vars /\ CallsReturn

\* the photo sections of the two forms: batches of uploads and removals
NextPhotos ==
    \/ uploadPhotos_start
    \/ uploadPhotos_upload
    \/ uploadPhotos_insert
    \/ uploadPhotos_finish
    \/ uploadPhotos_returned
    \/ ServiceReportEdit_removePhoto_start
    \/ ServiceReportEdit_removePhoto
    \/ ServiceReportForm_removePhoto

SpecPhotos == InitUpload /\ [][NextPhotos]_vars

\* the label of a draft report, for every time zone, time of day and date
InitSummary ==
    /\ InitViews
    /\ service_reports = [r \in ReportIds |-> AbsentRow]
    /\ summary \in [tz : TzOffsets, hour : 0..(HoursPerDay - 1),
                     completion_date : CompletionDates, status : {Unrendered}]
    /\ auth = AuthMountedWith(Null)
    /\ sms_notifications = <<>>

NextSummary ==
    \/ DraftReportsSummary_render

SpecSummary == InitSummary /\ [][NextSummary]_vars

\* the recent-activity hook, mounted and unmounted any number of times
NextActivity ==
    \/ fetchRecentActivity_reports
    \/ fetchRecentActivity_customers
    \/ useRecentActivity_unmount

SpecActivity == Init /\ [][NextActivity]_vars

\* ================================================================ claims

Status(r) == service_reports[r].status

\* C1: once the stored status of a report is 'completed', it is 'completed'
\* in every later state in which the row still exists (create, edit, both
\* finalize handlers, e-mail dispatch and delete interleaved).
C1_CompletedIsTerminal ==
    [][\A r \in ReportIds :
          (Present(r) /\ Status(r) = "completed" /\ service_reports'[r].row = "present")
             => service_reports'[r].status = "completed"]_vars

\* a dispatch ran on a report that was already completed, and it still is
C1_Witness ==
    \E r \in ReportIds :
        /\ Present(r) /\ Status(r) = "completed"
        /\ h["detail"].pc = "returned" /\ h["detail"].reportId = r
        /\ h["detail"].success /\ h["detail"].loaded = "completed"

\* C2: a row inserted by ServiceReportForm.onSubmit has status 'draft' when
\* it is inserted, whatever the form values are.
C2_CreateStartsDraft ==
    [][\A r \in ReportIds :
          (service_reports[r].row = "absent" /\ service_reports'[r].row = "present")
             => service_reports'[r].status = "draft"]_vars

\* the form has just inserted a report with a form value other than the default
C2_Witness ==
    /\ form.pc = "photos"
    /\ Present(form.newId)
    /\ service_reports[form.newId].customer_id = "c2"
    /\ Status(form.newId) = "draft"

\* C3 as claimed: the handler returned success for a report it loaded as
\* draft, so the stored status is 'completed' (where the row still exists).
C3_Original ==
    \A c \in Callers :
        (/\ h[c].pc = "returned" /\ h[c].success /\ h[c].loaded = "draft"
         /\ Present(h[c].reportId))
           => Status(h[c].reportId) = "completed"

\* C3 amended: the handler returned success for a report it loaded as draft
\* and its status update reported no error, so the stored status is
\* 'completed' (where the row still exists).
C3_Amended ==
    \A c \in Callers :
        (/\ h[c].pc = "returned" /\ h[c].success /\ h[c].loaded = "draft"
         /\ ~h[c].updateError
         /\ Present(h[c].reportId))
           => Status(h[c].reportId) = "completed"

\* the handler loaded a draft, sent the e-mail and wrote 'completed'
C3_Witness ==
    \E c \in Callers :
        /\ h[c].pc = "returned" /\ h[c].success /\ h[c].loaded = "draft"
        /\ ~h[c].updateError /\ h[c].writes = 1
        /\ Present(h[c].reportId) /\ Status(h[c].reportId) = "completed"

\* C4: when the e-mail provider reports a failure, the handler returns
\* success = false without writing to any report, and handleSendReport does
\* not go on to finalize: the table is the same after these steps as before.
C4_ProviderFailureMutatesNothing ==
    [][/\ \A c \in Callers :
             (h[c].pc = "loaded" /\ h'[c].cause = "provider")
                => /\ h'[c].pc = "returned" /\ ~h'[c].success
                   /\ h'[c].httpStatus = 500
                   /\ h'[c].updates = 0 /\ h'[c].writes = 0
                   /\ service_reports' = service_reports
       /\ (detail.pc = "sending" /\ h["detail"].cause = "provider" /\ detail' # detail)
             => /\ detail'.pc = "done" /\ detail'.result = "false"
                /\ detail'.finalizeWrites = 0
                /\ service_reports' = service_reports]_vars

\* handleSendReport is over after a provider failure; the view held a draft
C4_Witness ==
    /\ detail.pc = "done" /\ detail.result = "false" /\ detail.report = "draft"
    /\ h["detail"].cause = "provider" /\ h["detail"].emails = 1
    /\ Present(detail.reportId) /\ Status(detail.reportId) = "draft"

\* C5: finalize is idempotent: either finalizeReport, applied to a report
\* whose stored status is already 'completed', leaves the row as it is.
C5_FinalizeIdempotent ==
    [][/\ (list.pc = "finalizing" /\ list'.pc = "idle" /\ Present(list.reportId)
           /\ Status(list.reportId) = "completed")
             => service_reports' = service_reports
       /\ (detail.pc = "finalizing" /\ detail'.pc = "done" /\ Present(detail.reportId)
           /\ Status(detail.reportId) = "completed")
             => service_reports' = service_reports]_vars

\* the detail view's Finalize button wrote to a report that was completed
C5_Witness ==
    /\ detail.pc = "done" /\ ~detail.fromSend
    /\ detail.before = "completed"
    /\ Present(detail.reportId) /\ Status(detail.reportId) = "completed"

\* C6 as claimed: every invocation calls the e-mail provider exactly once.
C6_Original ==
    \A c \in Callers : h[c].pc = "returned" => h[c].emails = 1

\* C6 amended: an invocation calls the e-mail provider at most once: exactly
\* once when the report was loaded, never when the report id is missing or
\* the report could not be loaded.
C6_Amended ==
    \A c \in Callers :
        /\ h[c].emails <= 1
        /\ h[c].pc = "returned" => (h[c].emails = 1 <=> h[c].loaded # "none")
        /\ h[c].cause \in {"missing_id", "store", "no_row"} => h[c].emails = 0

\* a request without a report id has returned, and no e-mail was sent
C6_Witness ==
    \E c \in Callers :
        /\ h[c].pc = "returned" /\ h[c].cause = "missing_id" /\ h[c].emails = 0

\* C7 as claimed: one 'Email Report' action of the detail view writes the
\* status at most once, handler and client flow together.
C7_Original ==
    h["detail"].writes + detail.finalizeWrites <= 1

\* C7 amended: one 'Email Report' action writes the status at most twice:
\* at most once in the handler, only for a report loaded as draft, and at
\* most once in the finalize of handleSendReport, which runs only after a
\* successful dispatch while the view still shows the report as draft.
C7_Amended ==
    /\ h["detail"].writes <= 1
    /\ detail.finalizeWrites <= 1
    /\ h["detail"].writes = 1 => h["detail"].loaded = "draft"
    /\ detail.finalizeWrites = 1 => (detail.fromSend /\ h["detail"].success)
    /\ (detail.pc = "finalizing" /\ detail.fromSend)
          => (h["detail"].success /\ detail.report = "draft")

\* both writes of one action were applied
C7_Witness ==
    /\ detail.pc = "done"
    /\ h["detail"].writes = 1 /\ detail.finalizeWrites = 1

\* C8: when the provider accepted the e-mail and the status update fails,
\* the handler answers success (200) with no error, leaves the table as it
\* was and has tried the update once.
C8_UpdateFailureIsSilent ==
    [][\A c \in Callers :
          (h[c].pc = "sent" /\ h'[c].updateError)
             => /\ h'[c].pc = "returned" /\ h'[c].success
                /\ h'[c].httpStatus = 200 /\ h'[c].error = MsgNone
                /\ h'[c].updates = 1 /\ h'[c].writes = 0
                /\ service_reports' = service_reports]_vars

\* the handler returned after a failed update of a report that is still draft
C8_Witness ==
    \E c \in Callers :
        /\ h[c].pc = "returned" /\ h[c].updateError /\ h[c].success
        /\ Present(h[c].reportId) /\ Status(h[c].reportId) = "draft"

StartsWith(msg, prefix) == Len(msg) >= 1 /\ msg[1] = prefix

\* C9 as claimed: a request without a report id answers 'Report ID is
\* required', an id that matches no row answers 'Report not found', a
\* provider failure answers 'Email sending failed: ...'; each with
\* success = false.
C9_DistinctMessages ==
    \A c \in Callers :
        h[c].pc = "returned" =>
            /\ h[c].cause = "missing_id"
                  => (~h[c].success /\ h[c].error = MsgReportIdRequired)
            /\ h[c].cause = "no_row"
                  => (~h[c].success /\ h[c].error = MsgReportNotFound)
            /\ h[c].cause = "provider"
                  => (~h[c].success /\ StartsWith(h[c].error, "Email sending failed: "))

\* C10 as claimed: a call whose provider call returned a response has added
\* exactly one row to sms_notifications when it returns.
C10_Original ==
    \A f \in SmsFns :
        (sms[f].pc = "done" /\ sms[f].smsResult \in {"success", "failure"})
           => sms[f].inserted = 1

\* C10 amended: a call whose provider call returned a response adds exactly
\* one row when its insert succeeds (and then returns true) and none when
\* the insert fails (and then returns false); no step adds more than one row.
C10_Amended ==
    [][/\ \A f \in SmsFns :
             (sms[f].pc = "responded" /\ sms'[f].pc = "done")
                => \/ /\ sms'[f].returned = "true" /\ sms'[f].inserted = 1
                      /\ Len(sms_notifications') = Len(sms_notifications) + 1
                   \/ /\ sms'[f].returned = "false" /\ sms'[f].inserted = 0
                      /\ sms_notifications' = sms_notifications
       /\ Len(sms_notifications') - Len(sms_notifications) \in {0, 1}]_vars

\* a send the provider rejected was recorded with one row
C10_Witness ==
    \E f \in SmsFns :
        /\ sms[f].pc = "done" /\ sms[f].smsResult = "failure"
        /\ sms[f].inserted = 1 /\ sms[f].returned = "true"
        /\ Len(sms_notifications) >= 1

\* C11: every row of sms_notifications has status 'sent' or 'failed', never
\* 'pending'; the row a call inserts has status 'sent' exactly when the
\* provider response of that call reported success, and 'failed' otherwise.
C11_StatusMatchesProvider ==
    [][/\ \A i \in 1..Len(sms_notifications') :
             sms_notifications'[i].status \in {"sent", "failed"}
       /\ \A f \in SmsFns :
             (sms[f].pc = "responded" /\ sms'[f].returned = "true")
                => LET row == sms_notifications'[Len(sms_notifications')]
                   IN  /\ Len(sms_notifications') = Len(sms_notifications) + 1
                       /\ (row.status = "sent") <=> (sms[f].smsResult = "success")
                       /\ (row.status = "failed") <=> (sms[f].smsResult # "success")]_vars

\* the table holds a row of an accepted send and a row of a rejected send
C11_Witness ==
    \E i, j \in 1..Len(sms_notifications) :
        /\ sms_notifications[i].status = "sent"
        /\ sms_notifications[j].status = "failed"

\* C12: when the call of the SMS provider returns an error, the function
\* writes no row to sms_notifications and returns false.
C12_ProviderErrorWritesNothing ==
    [][\A f \in SmsFns :
          /\ (sms[f].pc = "invoked" /\ sms'[f].smsResult = "error")
                => /\ sms_notifications' = sms_notifications
                   /\ sms'[f].pc = "done" /\ sms'[f].returned = "false"
          /\ sms'[f].smsResult = "error"
                => (sms'[f].inserted = 0 /\ sms'[f].returned = "false")]_vars

\* a call ended on the error of the provider call while the other function
\* had recorded a send
C12_Witness ==
    \E f \in SmsFns :
        /\ sms[f].pc = "done" /\ sms[f].smsResult = "error"
        /\ sms[f].returned = "false" /\ sms[f].inserted = 0
        /\ Len(sms_notifications) >= 1

\* C13: sms_notifications is append-only: every stored row stays in the
\* table with the same customer, phone number, message and status; no step
\* of the SMS hook or of the customer deletion updates or deletes a row.
C13_AppendOnly ==
    [][/\ Len(sms_notifications') >= Len(sms_notifications)
       /\ \A i \in 1..Len(sms_notifications) :
             sms_notifications'[i] = sms_notifications[i]]_vars

\* a customer was deleted while the table held the rows of two sends
C13_Witness ==
    /\ Len(sms_notifications) >= 2
    /\ dialog.pc = "done" /\ dialog.outcome = "success"
    /\ customers[dialog.customer] = "deleted"

\* C14: a step of the delete-customer action taken while a report
\* references the customer ends the action without deleting a customer,
\* a report, a photo or an SMS row and without calling onSuccess.
C14_DeleteWithReportsRejected ==
    [][(dialog' # dialog /\ dialog.pc \in {"idle", "deleting"}
           /\ ReportsOf(dialog'.customer) # {})
          => /\ dialog'.pc = "done" /\ dialog'.outcome \in {"rejected", "error"}
             /\ ~dialog'.onSuccess
             /\ customers' = customers
             /\ service_reports' = service_reports
             /\ service_report_photos' = service_report_photos
             /\ sms_notifications' = sms_notifications]_vars

\* the dialog refused to delete a customer that a report references
C14_Witness ==
    /\ dialog.pc = "done" /\ dialog.outcome = "rejected"
    /\ ReportsOf(dialog.customer) # {}
    /\ customers[dialog.customer] = "present"

\* C15: no report names a customer whose row no longer exists, whatever the
\* interleaving of the two steps of delete-customer with the creation and
\* the edit of reports.
C15_NoDanglingCustomer ==
    \A r \in ReportIds :
        Present(r) => customers[service_reports[r].customer_id] = "present"

\* the check found no report, and before the delete was issued a report
\* came to reference the customer
C15_Witness ==
    /\ dialog.pc = "deleting"
    /\ ReportsOf(dialog.customer) # {}

\* C16: deleteReport deletes the report row only in the step that follows
\* its photo delete, and a photo delete that failed (the photos of the
\* report are still stored) ends deleteReport without a report delete.
C16_PhotosBeforeReport ==
    [][/\ \A r \in ReportIds :
             (Present(r) /\ service_reports'[r].row = "deleted")
                => /\ list.pc = "deletingReport" /\ list.reportId = r
                   /\ PhotosOf(r) = {}
       /\ (list.pc = "deletingPhotos" /\ list' # list
              /\ PhotosOf(list.reportId) # {}
              /\ service_report_photos' = service_report_photos)
             => (list'.pc = "idle" /\ service_reports' = service_reports)]_vars

\* a report that had a photo was deleted after its photos
C16_Witness ==
    \E r \in ReportIds :
        /\ service_reports[r].row = "deleted"
        /\ nextPhotoId > 1
        /\ PhotosOf(r) = {}

\* C17: whatever the interleaving of the finalize calls of the list and of
\* the detail view and of the dispatch handler on one report, every status
\* write that is applied leaves the status 'completed', and from the first
\* applied write on the stored status is 'completed' in every state, so
\* also when all calls have returned.
C17_ConcurrentWritesComplete ==
    [][/\ (list.pc = "finalizing" /\ list'.pc = "idle"
              /\ service_reports' # service_reports)
             => service_reports'[list.reportId].status = "completed"
       /\ \A c \in Callers :
             (h'[c].writes >= 1 /\ service_reports'[h'[c].reportId].row = "present")
                => service_reports'[h'[c].reportId].status = "completed"
       /\ (detail'.before # "none" /\ service_reports'[detail'.reportId].row = "present")
             => service_reports'[detail'.reportId].status = "completed"]_vars

\* the handler has written while the finalize call of the detail view and
\* the finalize call of the list are both in flight on the same report
C17_Witness ==
    /\ h["detail"].writes = 1
    /\ detail.pc = "finalizing" /\ list.pc = "finalizing"
    /\ list.reportId = detail.reportId /\ h["detail"].reportId = detail.reportId
    /\ Present(detail.reportId) /\ Status(detail.reportId) = "completed"

\* C18: when a batch of uploadPhotos has ended, every task of the batch has
\* answered, whatever the other tasks answered, and the photos appended to
\* the form's state are exactly the files whose task succeeded (upload, and
\* in the edit form also the insert of the row), in the order of the files;
\* in the edit form each of them is a stored row and no other row is stored.
C18_BatchRecordsSuccesses ==
    upload.pc = "done" =>
        LET f == upload.form
            held == PhotosState(f)
            ok == { i \in 1..Len(upload.tasks) : upload.tasks[i].st = TaskSucceeded(f) }
            added == (upload.base + 1)..Len(held)
        IN  /\ \A i \in 1..Len(upload.tasks) : upload.tasks[i].st \in {"failed", TaskSucceeded(f)}
            /\ Len(held) = upload.base + Cardinality(ok)
            /\ \A i \in ok : \E k \in added :
                  IF f = "edit"
                  THEN /\ held[k].id = upload.tasks[i].id
                       /\ held[k].order_index = upload.base + i - 1
                       /\ held[k] \in service_report_photos
                  ELSE held[k] = PublicUrl(i, upload.files[i])
            /\ \A i, j \in ok, k, l \in added :
                  (i < j /\ k >= l) =>
                     ~ IF f = "edit"
                       THEN held[k].id = upload.tasks[i].id /\ held[l].id = upload.tasks[j].id
                       ELSE /\ held[k] = PublicUrl(i, upload.files[i])
                            /\ held[l] = PublicUrl(j, upload.files[j])
            /\ f = "edit" => Cardinality(service_report_photos) = Len(editPhotos)

\* a batch of the edit form ended with one file recorded and one file
\* failed, after a batch of the create form that kept one of its files
C18_Witness ==
    /\ upload.pc = "done" /\ upload.form = "edit"
    /\ \E i, j \in 1..Len(upload.tasks) :
          upload.tasks[i].st = "failed" /\ upload.tasks[j].st = "recorded"
    /\ Len(editPhotos) = 1
    /\ Len(createPhotos) = 1

\* C19 as claimed: a report without completion date is labelled 'No
\* deadline', a completion date of today 'Due today' and a completion date
\* of today minus 3 days '3 days overdue', at every time of day.
C19_LabelsAtEveryTimeOfDay ==
    summary.status # Unrendered =>
        /\ summary.completion_date = NoDate
              => summary.status.text = <<"No deadline">>
        /\ summary.completion_date = DateString(Today)
              => summary.status.text = <<"Due today">>
        /\ summary.completion_date = DateString(Today - 3)
              => summary.status.text = <<"3", " days overdue">>

\* C20: the list that fetchRecentActivity builds has min(5, reports +
\* customers) entries, in non-increasing order of timestamp; each entry
\* stands for one fetched row, with created_at as timestamp of a report and
\* updated_at as timestamp of a customer, no row twice; and no fetched row
\* left out is newer than an entry of the list.
C20_FiveMostRecent ==
    activity.pc = "done" =>
        LET out == activity.activities
            nr == Len(activity.reportsData)
            nc == Len(activity.customersData)
            time(k) == out[k].timestamp[2]
        IN  /\ Len(out) = IF nr + nc < 5 THEN nr + nc ELSE 5
            /\ \A k \in 1..(Len(out) - 1) : time(k) >= time(k + 1)
            /\ \A k \in 1..Len(out) :
                  IF out[k].type = "service_report"
                  THEN /\ out[k].id \in 1..nr
                       /\ out[k].timestamp = activity.reportsData[out[k].id].created_at
                  ELSE /\ out[k].type = "customer" /\ out[k].id \in 1..nc
                       /\ out[k].timestamp = activity.customersData[out[k].id].updated_at
            /\ \A k, l \in 1..Len(out) :
                  (out[k].type = out[l].type /\ out[k].id = out[l].id) => k = l
            /\ \A i \in 1..nr :
                  (\A k \in 1..Len(out) : ~(out[k].type = "service_report" /\ out[k].id = i))
                     => \A k \in 1..Len(out) : activity.reportsData[i].created_at[2] <= time(k)
            /\ \A i \in 1..nc :
                  (\A k \in 1..Len(out) : ~(out[k].type = "customer" /\ out[k].id = i))
                     => \A k \in 1..Len(out) : activity.customersData[i].updated_at[2] <= time(k)

\* six rows were fetched, the list has five entries of both types, and the
\* oldest customer was left out
C20_Witness ==
    /\ activity.pc = "done"
    /\ Len(activity.reportsData) = 3 /\ Len(activity.customersData) = 3
    /\ Len(activity.activities) = 5
    /\ activity.activities[1].type = "customer"
    /\ activity.activities[2].type = "service_report"
    /\ \A k \in 1..5 : ~(activity.activities[k].type = "customer"
                             /\ activity.activities[k].id = 3)

\* C21: once the recent-activity list is built, every customer entry is
\* tagged "created" exactly when the created and updated timestamps of its
\* row are equal and "updated" otherwise; every report entry has type
\* "service_report" and is tagged "drafted" exactly when the status of its
\* row is "draft" and "created" otherwise.
C21_ActivityTags ==
    activity.pc = "done" =>
        \A k \in 1..Len(activity.activities) :
            LET a == activity.activities[k]
            IN  IF a.type = "customer"
                THEN LET row == activity.customersData[a.id]
                     IN  /\ (a.action = "created") <=> (row.created_at = row.updated_at)
                         /\ (a.action = "updated") <=> (row.created_at # row.updated_at)
                ELSE LET row == activity.reportsData[a.id]
                     IN  /\ a.type = "service_report"
                         /\ (a.action = "drafted") <=> (row.status = "draft")
                         /\ (a.action = "created") <=> (row.status # "draft")

\* the list shows a new and an edited customer, a draft and a finalized report
C21_Witness ==
    /\ activity.pc = "done"
    /\ \E k1, k2, k3, k4 \in 1..Len(activity.activities) :
        /\ activity.activities[k1].type = "customer"
        /\ activity.activities[k1].action = "created"
        /\ activity.activities[k2].type = "customer"
        /\ activity.activities[k2].action = "updated"
        /\ activity.activities[k3].type = "service_report"
        /\ activity.activities[k3].action = "drafted"
        /\ activity.activities[k4].type = "service_report"
        /\ activity.activities[k4].action = "created"

\* C22: in every reachable state the status of every stored service report
\* is one of 'draft', 'in-progress', 'completed', and since no operation
\* writes 'in-progress' the only values that occur are 'draft' and
\* 'completed'.
C22_StatusDomain ==
    \A r \in ReportIds :
        Present(r) =>
            /\ Status(r) \in {"draft", "in-progress", "completed"}
            /\ Status(r) \in {"draft", "completed"}

\* a report that was created, finalized and then edited to another customer
C22_Witness ==
    \E r \in ReportIds :
        /\ Present(r)
        /\ Status(r) = "completed"
        /\ service_reports[r].customer_id = "c2"

\* C24: a step of ServiceReportEdit.onSubmit, successful or failed, leaves
\* the stored status of every report as it was, for every report and all
\* form values: it neither finalizes a draft nor reopens a completed report.
C24_EditKeepsStatus ==
    [][ServiceReportEdit_onSubmit =>
        \A r \in ReportIds :
            /\ service_reports'[r].row = service_reports[r].row
            /\ service_reports'[r].status = service_reports[r].status]_vars

\* a draft that the edit form has moved to the other customer
C24_Witness ==
    \E r \in ReportIds :
        /\ Present(r)
        /\ Status(r) = "draft"
        /\ service_reports[r].customer_id = "c2"
        /\ form.pc = "idle"

\* C26: sendServiceDueNotification and sendCustomSMS return true (and show
\* the success notification) only if the provider response of the call
\* reported that the message was sent; after a response that reports a
\* failure the caller does not receive a success result.
C26_TrueOnlyIfSent ==
    \A f \in SmsFns :
        sms[f].returned = "true" => sms[f].smsResult = "success"

\* C27: deleteReport is all-or-nothing: when it returns, either the report
\* row and all its photo rows are gone, or the report row and all the photo
\* rows it had before the call are still present.
C27_DeleteAllOrNothing ==
    [][(list.pc \in {"deletingPhotos", "deletingReport"} /\ list'.pc = "idle")
          => LET r == list.reportId
             IN  \/ /\ service_reports'[r].row # "present"
                    /\ { p \in service_report_photos' : p.service_report_id = r } = {}
                 \/ /\ service_reports'[r].row = "present"
                    /\ list.photosBefore \subseteq service_report_photos']_vars

\* C29: a click on the SMS reminder button makes no provider call and
\* writes no sms_notifications row when the report's customer has no phone
\* number or the report has no next service date; otherwise it makes exactly
\* one call of sendServiceDueNotification, with that customer's id, phone
\* and name and the report's next service date.
C29_ReminderGuard ==
    [][\A view \in ReminderViews :
          handleSendSMSReminder(view) =>
             LET report == reminder'.report
                 f == "sendServiceDueNotification"
             IN  /\ sms_notifications' = sms_notifications
                 /\ sms'["sendCustomSMS"] = sms["sendCustomSMS"]
                 /\ IF \/ report.customer.phone \in {"", Null}
                       \/ report.next_service_date = Null
                    THEN sms'[f] = sms[f]
                    ELSE /\ sms[f].pc = "idle"
                         /\ sms'[f].pc = "invoked"
                         /\ sms'[f].customerId = report.customer.id
                         /\ sms'[f].phone = report.customer.phone
                         /\ sms'[f].message =
                               DueMessage(report.customer.name, report.next_service_date)]_vars

\* a reminder for customer c2 is on its way to the provider, after an
\* earlier one was recorded
C29_Witness ==
    /\ reminder.view = "detail"
    /\ reminder.toast = ToastNone
    /\ reminder.report.customer.id = "c2"
    /\ sms["sendServiceDueNotification"].pc = "invoked"
    /\ sms["sendServiceDueNotification"].customerId = "c2"
    /\ Len(sms_notifications) = 1

\* C30: for every interleaving of the initial session fetch with auth
\* events, once the fetch has completed without error and every emitted
\* event has been delivered, the session and user held by AuthProvider are
\* those of the auth client's current session; a late completion of the
\* fetch never overwrites the state set by a newer event.
C30_StateIsLatestSession ==
    (auth.pc = "done" /\ ~auth.error /\ auth.events = <<>>)
        => /\ auth.session = auth.client
           /\ auth.user = SessionUser(auth.client)

\* C25: after any sequence of photo uploads and photo removals in the edit
\* form of a report, no two photo rows of the report have the same
\* order_index.
C25_OrderIndexUnique ==
    \A p, q \in service_report_photos :
        (p.service_report_id = q.service_report_id /\ p.order_index = q.order_index)
            => p = q

\* C28: in the create form, once no batch is in flight, photos and
\* photoPreviews have the same length and entry i of photos is the URL of
\* the file shown as preview i.
C28_PhotosMatchPreviews ==
    ~(upload.pc \in {"running", "done"} /\ upload.form = "create")
        => /\ Len(createPhotos) = Len(photoPreviews)
           /\ \A i \in 1..Len(createPhotos) :
                 \E file \in FileNames :
                    /\ createPhotos[i][3] = file
                    /\ photoPreviews[i] = Preview(file)

\* C23: the busy flag an operation sets when it starts is cleared again
\* once its store and provider calls have returned, on every path:
\* updatingStatus and deletingReport of the list, updating and the e-mail
\* hook's loading of the detail view, loading of the SMS hook.
C23_BusyFlagsCleared ==
    /\ (list.pc = "finalizing") ~> (list.pc = "idle")
    /\ (list.pc \in {"deletingPhotos", "deletingReport"}) ~> (list.pc = "idle")
    /\ detail.updating ~> ~detail.updating
    /\ detail.loading ~> ~detail.loading
    /\ \A f \in SmsFns : sms[f].loading ~> ~sms[f].loading

\* all three components are busy at once: a delete in the list, an e-mail
\* dispatch in the detail view and a reminder on its way
C23_Witness ==
    /\ list.pc = "deletingReport"
    /\ detail.loading
    /\ sms["sendServiceDueNotification"].loading

====
